---- MODULE Spec2Model ----
(***************************************************************************)
(* Model of the search-term refinement loop (SearchTermAgent.Generate),    *)
(* its local quality evaluator and its good-enough predicate.              *)
(*                                                                         *)
(* A Go string is a sequence of one-character strings, so that             *)
(* strings.ToLower, strings.Contains, strings.HasPrefix and strings.Fields *)
(* are computed and not assumed.  A float64 ratio of two small integers is *)
(* the pair <<numerator, denominator>>; the comparison with the literal    *)
(* 0.6 is exact for such ratios (see DiversityAtLeastThreshold).           *)
(***************************************************************************)
EXTENDS Integers, Sequences, FiniteSets, TLC

\* ------------------------------------------------------------------------
\* Program constants
\* ------------------------------------------------------------------------
MAX_REFINEMENT_ITERATIONS == 4

TARGET_SEARCH_TERM_COUNT == 15

\* ------------------------------------------------------------------------
\* Bounds of the model
\* ------------------------------------------------------------------------
\* a filler term carries 0..MaxRepeat copies of one repeated word
MaxRepeat == 2

\* payloads and quality reports have a term count within this distance of N
MaxCountDelta == 1

\* largest total word count of a quality report drawn as a bare input
MaxTotalWords == 5

\* largest config.MaxIterations given to RunAgent (the smallest is -1)
MaxConfigIterations == 3

\* largest config.MaxIterations of the RunAgent run interleaved with Generate
MaxConcIterations == 2

\* longest term list given to the evaluator as a bare input
MaxEvalTerms == 3

\* ------------------------------------------------------------------------
\* Strings
\* ------------------------------------------------------------------------
UpperCase ==
  <<"A","B","C","D","E","F","G","H","I","J","K","L","M",
    "N","O","P","Q","R","S","T","U","V","W","X","Y","Z">>

LowerCase ==
  <<"a","b","c","d","e","f","g","h","i","j","k","l","m",
    "n","o","p","q","r","s","t","u","v","w","x","y","z">>

ToLowerChar(c) ==
  IF \E i \in 1..Len(UpperCase) : UpperCase[i] = c
    THEN LowerCase[CHOOSE i \in 1..Len(UpperCase) : UpperCase[i] = c]
    ELSE c

\* strings.ToLower
ToLower(s) == [i \in 1..Len(s) |-> ToLowerChar(s[i])]

\* strings.Contains
Contains(s, sub) ==
  \E i \in 0..(Len(s) - Len(sub)) : SubSeq(s, i + 1, i + Len(sub)) = sub

\* strings.HasPrefix
HasPrefix(s, prefix) ==
  Len(s) >= Len(prefix) /\ SubSeq(s, 1, Len(prefix)) = prefix

IsSpace(c) == c \in {" ", "\t", "\n", "\r"}

\* strings.Fields: scan[i] is <<words completed, word being read>> after
\* the first i characters
Fields(s) ==
  LET scan[i \in 0..Len(s)] ==
        IF i = 0
          THEN << <<>>, <<>> >>
          ELSE \* p is scan[i - 1], computed once
               CHOOSE next \in
                 { IF IsSpace(s[i])
                     THEN IF p[2] = <<>> THEN p ELSE <<Append(p[1], p[2]), <<>>>>
                     ELSE <<p[1], Append(p[2], s[i])>> : p \in {scan[i - 1]} } : TRUE
      end == scan[Len(s)]
  IN  IF end[2] = <<>> THEN end[1] ELSE Append(end[1], end[2])

\* ------------------------------------------------------------------------
\* Quality report (SearchTermQuality)
\* ------------------------------------------------------------------------
PatternFlags ==
  <<"HasComparisons", "HasQuestions", "HasBestLists",
    "HasValueTerms", "HasFormatMix", "HasUserIntent">>

FlagNames == {PatternFlags[i] : i \in 1..Len(PatternFlags)}

\* the zero value of the struct, with TermCount set
ZeroQuality(n) ==
  [HasComparisons |-> FALSE, HasQuestions |-> FALSE, HasBestLists |-> FALSE,
   HasValueTerms |-> FALSE, HasFormatMix |-> FALSE, HasUserIntent |-> FALSE,
   DiversityScore |-> <<0, 1>>, TermCount |-> n]

\* a float64 ratio d[1]/d[2] compared with the literal 0.6: for integers
\* below 2^53 the rounded quotient is >= the rounded 0.6 exactly when
\* 5 * d[1] >= 3 * d[2]
DiversityAtLeastThreshold(d) == 5 * d[1] >= 3 * d[2]

\* ------------------------------------------------------------------------
\* Pattern literals of evaluateSearchTermQuality
\* ------------------------------------------------------------------------
Patterns ==
  [ vs |-> <<" ","v","s"," ">>,
    versus |-> <<" ","v","e","r","s","u","s"," ">>,
    alternative |-> <<"a","l","t","e","r","n","a","t","i","v","e">>,
    comparison |-> <<"c","o","m","p","a","r","i","s","o","n">>,
    where |-> <<"w","h","e","r","e"," ">>,
    how |-> <<"h","o","w"," ">>,
    what |-> <<"w","h","a","t"," ">>,
    which |-> <<"w","h","i","c","h"," ">>,
    best |-> <<"b","e","s","t"," ">>,
    top |-> <<"t","o","p"," ">>,
    most_popular |-> <<"m","o","s","t"," ","p","o","p","u","l","a","r">>,
    unlimited |-> <<"u","n","l","i","m","i","t","e","d">>,
    free |-> <<"f","r","e","e">>,
    trial |-> <<"t","r","i","a","l">>,
    affordable |-> <<"a","f","f","o","r","d","a","b","l","e">>,
    audiobook |-> <<"a","u","d","i","o","b","o","o","k">>,
    ebook |-> <<"e","b","o","o","k">>,
    book |-> <<"b","o","o","k">>,
    magazine |-> <<"m","a","g","a","z","i","n","e">>,
    for |-> <<" ","f","o","r"," ">> ]

\* ------------------------------------------------------------------------
\* Quality evaluation (local, no external call)
\* ------------------------------------------------------------------------
IsComparison(term) ==
  \/ Contains(term, Patterns.vs) \/ Contains(term, Patterns.versus)
  \/ Contains(term, Patterns.alternative) \/ Contains(term, Patterns.comparison)

IsQuestion(term) ==
  \/ HasPrefix(term, Patterns.where) \/ HasPrefix(term, Patterns.how)
  \/ HasPrefix(term, Patterns.what) \/ HasPrefix(term, Patterns.which)

IsBestList(term) ==
  \/ Contains(term, Patterns.best) \/ Contains(term, Patterns.top)
  \/ Contains(term, Patterns.most_popular)

IsValueTerm(term) ==
  \/ Contains(term, Patterns.unlimited) \/ Contains(term, Patterns.free)
  \/ Contains(term, Patterns.trial) \/ Contains(term, Patterns.affordable)

IsFormatMix(term) ==
  \/ Contains(term, Patterns.audiobook) \/ Contains(term, Patterns.ebook)
  \/ Contains(term, Patterns.book) \/ Contains(term, Patterns.magazine)

IsUserIntent(term) == Contains(term, Patterns.for)

\* variant: each flag is assigned the answer for the term at hand
DetectPatterns_LastWins(qual, term) ==
  [qual EXCEPT
     !.HasComparisons = IsComparison(term),
     !.HasQuestions   = IsQuestion(term),
     !.HasBestLists   = IsBestList(term),
     !.HasValueTerms  = IsValueTerm(term),
     !.HasFormatMix   = IsFormatMix(term),
     !.HasUserIntent  = IsUserIntent(term)]

\* one pass of the detection loop over one lower-cased term
DetectPatterns(qual, term) ==
  [qual EXCEPT
     !.HasComparisons = IF IsComparison(term) THEN TRUE ELSE @,
     !.HasQuestions   = IF IsQuestion(term) THEN TRUE ELSE @,
     !.HasBestLists   = IF IsBestList(term) THEN TRUE ELSE @,
     !.HasValueTerms  = IF IsValueTerm(term) THEN TRUE ELSE @,
     !.HasFormatMix   = IF IsFormatMix(term) THEN TRUE ELSE @,
     !.HasUserIntent  = IF IsUserIntent(term) THEN TRUE ELSE @]

\* the detection loop: the report after all lower-cased terms were scanned
DetectLoop(qual, termsLower) ==
  LET after[i \in 0..Len(termsLower)] ==
        IF i = 0 THEN qual ELSE DetectPatterns(after[i - 1], termsLower[i])
  IN  after[Len(termsLower)]

\* variant: a word repeated inside one term is counted once in the total
DiversityLoop_TotalPerTerm(terms) ==
  LET after[i \in 0..Len(terms)] ==
        IF i = 0
          THEN <<{}, 0>>
          ELSE LET words == Fields(terms[i])
                   p     == after[i - 1]
               IN  <<p[1] \cup {words[j] : j \in 1..Len(words)},
                     p[2] + Cardinality({words[j] : j \in 1..Len(words)})>>
  IN  after[Len(terms)]

\* the loop of calculateDiversity: <<wordSet, totalWords>> after all terms;
\* p is the pair after the terms before, words the words of the term
DiversityLoop(terms) ==
  LET after[i \in 0..Len(terms)] ==
        IF i = 0
          THEN <<{}, 0>>
          ELSE CHOOSE next \in
                 { <<p[1] \cup {words[j] : j \in 1..Len(words)}, p[2] + Len(words)>> :
                     p \in {after[i - 1]}, words \in {Fields(terms[i])} } : TRUE
  IN  after[Len(terms)]

calculateDiversity(terms) ==
  LET r == DiversityLoop(terms)
  IN  IF r[2] = 0 THEN <<0, 1>> ELSE <<Cardinality(r[1]), r[2]>>

evaluateSearchTermQuality(terms) ==
  LET termsLower == [i \in 1..Len(terms) |-> ToLower(terms[i])]
      detected   == DetectLoop(ZeroQuality(Len(terms)), termsLower)
  IN  [detected EXCEPT !.DiversityScore = calculateDiversity(termsLower)]

\* variant: the pattern threshold is strict (more than 4 patterns)
isGoodEnough_StrictPatterns(qual) ==
  IF qual.TermCount # TARGET_SEARCH_TERM_COUNT
    THEN FALSE
    ELSE LET patternCount ==
               (IF qual.HasComparisons THEN 1 ELSE 0)
             + (IF qual.HasQuestions THEN 1 ELSE 0)
             + (IF qual.HasBestLists THEN 1 ELSE 0)
             + (IF qual.HasValueTerms THEN 1 ELSE 0)
             + (IF qual.HasFormatMix THEN 1 ELSE 0)
             + (IF qual.HasUserIntent THEN 1 ELSE 0)
         IN  patternCount > 4 /\ DiversityAtLeastThreshold(qual.DiversityScore)

\* variant: the pattern count is compared for equality
isGoodEnough_ExactPatterns(qual) ==
  IF qual.TermCount # TARGET_SEARCH_TERM_COUNT
    THEN FALSE
    ELSE LET patternCount ==
               (IF qual.HasComparisons THEN 1 ELSE 0)
             + (IF qual.HasQuestions THEN 1 ELSE 0)
             + (IF qual.HasBestLists THEN 1 ELSE 0)
             + (IF qual.HasValueTerms THEN 1 ELSE 0)
             + (IF qual.HasFormatMix THEN 1 ELSE 0)
             + (IF qual.HasUserIntent THEN 1 ELSE 0)
         IN  patternCount = 4 /\ DiversityAtLeastThreshold(qual.DiversityScore)

isGoodEnough(qual) ==
  IF qual.TermCount # TARGET_SEARCH_TERM_COUNT
    THEN FALSE
    ELSE LET patternCount ==
               (IF qual.HasComparisons THEN 1 ELSE 0)
             + (IF qual.HasQuestions THEN 1 ELSE 0)
             + (IF qual.HasBestLists THEN 1 ELSE 0)
             + (IF qual.HasValueTerms THEN 1 ELSE 0)
             + (IF qual.HasFormatMix THEN 1 ELSE 0)
             + (IF qual.HasUserIntent THEN 1 ELSE 0)
         IN  patternCount >= 4 /\ DiversityAtLeastThreshold(qual.DiversityScore)

\* ------------------------------------------------------------------------
\* The missing-pattern hint of the refinement prompt
\* ------------------------------------------------------------------------
\* the gap descriptions, in the order of the if statements
GapDescriptions ==
  <<"- Comparison terms (e.g., 'X vs Y', 'X alternative')",
    "- Question-based (e.g., 'where to find X', 'how to get X')",
    "- Best/Top lists (e.g., 'best X for Y', 'top X in 2025')",
    "- Value-focused (e.g., 'unlimited X', 'free X trial')",
    "- Format combinations (e.g., 'X audiobooks', 'X ebooks')",
    "- User intent (e.g., 'X for beginners', 'X for commute')">>

NoneMissing == "None - improve diversity and specificity!"

\* strings.Join
Join(elems, sep) ==
  LET upTo[i \in 0..Len(elems)] ==
        IF i = 0 THEN ""
        ELSE IF i = 1 THEN elems[1]
        ELSE upTo[i - 1] \o sep \o elems[i]
  IN  upTo[Len(elems)]

\* the appends to `missing`, one if statement after the other
MissingLoop(qual) ==
  LET after[i \in 0..Len(PatternFlags)] ==
        IF i = 0
          THEN <<>>
          ELSE IF ~qual[PatternFlags[i]]
                 THEN Append(after[i - 1], GapDescriptions[i])
                 ELSE after[i - 1]
  IN  after[Len(PatternFlags)]

\* variant: no sentinel, the joined list is returned even when it is empty
identifyMissingPatterns_NoSentinel(qual) ==
  Join(MissingLoop(qual), "\n")

identifyMissingPatterns(qual) ==
  LET missing == MissingLoop(qual)
  IN  IF Len(missing) = 0 THEN NoneMissing ELSE Join(missing, "\n")

\* ------------------------------------------------------------------------
\* Inputs: the term lists a model response may carry
\* ------------------------------------------------------------------------
\* one exemplar term per pattern category, in the order of PatternFlags;
\* upper-case letters make strings.ToLower matter
Exemplar ==
  <<  <<"A"," ","v","s"," ","B">>,
      <<"H","o","w"," ","x">>,
      <<"T","o","p"," ","x">>,
      <<"f","r","e","e"," ","x">>,
      <<"e","B","o","o","k">>,
      <<"x"," ","f","o","r"," ","y">>  >>

\* r copies of " zz"
RepeatedWord(r) == [i \in 1..(3 * r) |-> <<" ", "z", "z">>[((i - 1) % 3) + 1]]

\* the i-th filler term: one word of its own, then r copies of a shared word
Filler(i, r) == <<"q", LowerCase[i]>> \o RepeatedWord(r)

ExemplarsOf(S) ==
  LET upTo[i \in 0..Len(Exemplar)] ==
        IF i = 0
          THEN <<>>
          ELSE upTo[i - 1] \o (IF i \in S THEN <<Exemplar[i]>> ELSE <<>>)
  IN  upTo[Len(Exemplar)]

\* n terms: the exemplars of the categories in S, then fillers
MkTerms(S, r, n) ==
  LET ex == ExemplarsOf(S)
  IN  [i \in 1..n |-> IF i <= Len(ex) THEN ex[i] ELSE Filler(i, r)]

CategorySets == SUBSET (1..Len(Exemplar))

WrongCounts ==
  {0, 12} \cup
  ((TARGET_SEARCH_TERM_COUNT - MaxCountDelta)..(TARGET_SEARCH_TERM_COUNT + MaxCountDelta)
     \ {TARGET_SEARCH_TERM_COUNT})

FullTermLists ==
  {MkTerms(S, r, TARGET_SEARCH_TERM_COUNT) : S \in CategorySets, r \in 0..MaxRepeat}

ShortTermLists == {MkTerms(1..Len(Exemplar), 0, n) : n \in WrongCounts}

TermLists == FullTermLists \cup ShortTermLists

\* ------------------------------------------------------------------------
\* Responses of the external call (client.CreateChatCompletion)
\* ------------------------------------------------------------------------
NoError == <<>>

CallErrors == {"transport error", "context canceled", "context deadline exceeded"}

\* err: the error of the call ("" when it returned a response);
\* choices, toolCalls: len(resp.Choices), len(resp.Choices[0].Message.ToolCalls);
\* parses: whether json.Unmarshal accepts the arguments;
\* search_terms: the decoded field (empty when the field is absent)
Response(err, choices, toolCalls, parses, terms) ==
  [err |-> err, choices |-> choices, toolCalls |-> toolCalls,
   parses |-> parses, search_terms |-> terms]

Responses ==
       {Response(e, 0, 0, FALSE, <<>>) : e \in CallErrors}
  \cup {Response("", 0, 0, FALSE, <<>>), Response("", 1, 0, FALSE, <<>>),
        Response("", 1, 1, FALSE, <<>>)}
  \cup {Response("", 1, 1, TRUE, t) : t \in TermLists}

\* a result pair ([]string, error) of Go
Result(terms, err) == [terms |-> terms, err |-> err]

\* variant: only a list longer than the target is rejected
extractSearchTerms_CountAtMost(resp) ==
  IF resp.choices = 0 \/ resp.toolCalls = 0
    THEN Result(<<>>, <<"no tool call in response">>)
    ELSE IF ~resp.parses
           THEN Result(<<>>, <<"failed to parse tool arguments", "json error">>)
           ELSE IF Len(resp.search_terms) > TARGET_SEARCH_TERM_COUNT
                  THEN Result(<<>>, <<"expected 15 terms, got another count">>)
                  ELSE Result(resp.search_terms, NoError)

\* variant: the count check is missing
extractSearchTerms_NoCountCheck(resp) ==
  IF resp.choices = 0 \/ resp.toolCalls = 0
    THEN Result(<<>>, <<"no tool call in response">>)
    ELSE IF ~resp.parses
           THEN Result(<<>>, <<"failed to parse tool arguments", "json error">>)
           ELSE Result(resp.search_terms, NoError)

\* variant: only a list shorter than the target is rejected
extractSearchTerms_CountAtLeast(resp) ==
  IF resp.choices = 0 \/ resp.toolCalls = 0
    THEN Result(<<>>, <<"no tool call in response">>)
    ELSE IF ~resp.parses
           THEN Result(<<>>, <<"failed to parse tool arguments", "json error">>)
           ELSE IF Len(resp.search_terms) < TARGET_SEARCH_TERM_COUNT
                  THEN Result(<<>>, <<"expected 15 terms, got another count">>)
                  ELSE Result(resp.search_terms, NoError)

extractSearchTerms(resp) ==
  IF resp.choices = 0 \/ resp.toolCalls = 0
    THEN Result(<<>>, <<"no tool call in response">>)
    ELSE IF ~resp.parses
           THEN Result(<<>>, <<"failed to parse tool arguments", "json error">>)
           ELSE IF Len(resp.search_terms) # TARGET_SEARCH_TERM_COUNT
                  THEN Result(<<>>, <<"expected 15 terms, got another count">>)
                  ELSE Result(resp.search_terms, NoError)

\* generateInitialTerms and refineTermsIteration, from the response on
callResult(resp) ==
  IF resp.err # ""
    THEN Result(<<>>, <<resp.err>>)
    ELSE extractSearchTerms(resp)

\* ------------------------------------------------------------------------
\* Observation of a response, independent of the code that handles it
\* ------------------------------------------------------------------------
Outcome(resp) ==
  IF resp.err # "" THEN "call_failed"
  ELSE IF resp.choices = 0 \/ resp.toolCalls = 0 THEN "no_tool_call"
  ELSE IF ~resp.parses THEN "bad_json"
  ELSE IF Len(resp.search_terms) # TARGET_SEARCH_TERM_COUNT THEN "wrong_count"
  ELSE "ok"

\* the full term lists that meet the good-enough predicate, tabulated once
GoodLists ==
  {t \in FullTermLists : isGoodEnough(evaluateSearchTermQuality(t))}

\* ------------------------------------------------------------------------
\* The generic driver (RunAgent): values
\* ------------------------------------------------------------------------
\* the budget generateKeywords configures
KeywordsMaxIterations == 3

\* a JSON value decoded into interface{}; JAbsent is a key the map lacks
JAbsent == [kind |-> "absent", str |-> <<>>, items |-> <<>>]

JString(str) == [kind |-> "string", str |-> str, items |-> <<>>]

JArray(items) == [kind |-> "array", str |-> <<>>, items |-> items]

\* the elements of an array
JStr(str) == [kind |-> "string", str |-> str]

JNum == [kind |-> "number", str |-> <<>>]

\* the decoded arguments of a tool call (map[string]interface{})
Payload(keywords, searchTerms) ==
  [keywords |-> keywords, search_terms |-> searchTerms]

EmptyPayload == Payload(JAbsent, JAbsent)

Keyword1 == <<"y", "a">>

Keyword2 == <<"S", "F">>

Payloads ==
  { EmptyPayload,
    Payload(JArray(<<JStr(Keyword1), JStr(Keyword2)>>), JAbsent),
    Payload(JArray(<<>>), JAbsent),
    Payload(JArray(<<JStr(Keyword1), JNum>>), JAbsent),
    Payload(JString(Keyword1), JAbsent),
    Payload(JAbsent, JArray(<<JStr(Keyword1)>>)) }

\* the budget generateSearchTerms configures
SearchTermsMaxIterations == 3

\* "search_terms" payloads: fifteen strings, another number of strings (none
\* included), fifteen elements with a number among them, a string
SearchTermPayloads ==
  LET StrItems(terms) == [i \in 1..Len(terms) |-> JStr(terms[i])]
  IN   {Payload(JAbsent, JArray(StrItems(t))) :
          t \in {MkTerms(1..Len(Exemplar), 0, TARGET_SEARCH_TERM_COUNT),
                 MkTerms({}, MaxRepeat, TARGET_SEARCH_TERM_COUNT)}
                \cup ShortTermLists}
  \cup {Payload(JAbsent,
                JArray(Append(StrItems(MkTerms(1..Len(Exemplar), 0,
                                               TARGET_SEARCH_TERM_COUNT - 1)),
                              JNum))),
        Payload(JAbsent, JString(Keyword1))}

\* err: the error of the call ("" when it returned a response);
\* choices, toolCalls: len(resp.Choices), len(choice.Message.ToolCalls);
\* parses: whether json.Unmarshal accepts the arguments as an object;
\* payload: the decoded arguments; text: choice.Message.Content.Text
DriverResponse(err, choices, toolCalls, parses, payload, text) ==
  [err |-> err, choices |-> choices, toolCalls |-> toolCalls,
   parses |-> parses, payload |-> payload, text |-> text]

ReplyTexts == {"thinking", "still thinking"}

DriverCallErrors == {"transport error", "context canceled"}

ToolCallResponses ==
  {DriverResponse("", 1, 1, TRUE, p, "") : p \in Payloads}

TextResponses ==
  {DriverResponse("", 1, 0, FALSE, EmptyPayload, t) : t \in ReplyTexts}

DriverResponses ==
       {DriverResponse(e, 0, 0, FALSE, EmptyPayload, "") : e \in DriverCallErrors}
  \cup {DriverResponse("", 0, 0, FALSE, EmptyPayload, ""),
        DriverResponse("", 1, 0, FALSE, EmptyPayload, ""),
        DriverResponse("", 1, 1, FALSE, EmptyPayload, ""),
        DriverResponse("", 1, 1, TRUE,
                       Payload(JArray(<<JStr(Keyword2)>>), JAbsent), "thinking")}
  \cup ToolCallResponses
  \cup TextResponses

\* the observation before any response
NoResponseYet == DriverResponse("no response yet", 0, 0, FALSE, EmptyPayload, "")

\* state.result and AgentResult.Result (interface{}): nil, a text or a map
NilValue == [kind |-> "nil", text |-> "", map |-> EmptyPayload]

TextValue(text) == [kind |-> "text", text |-> text, map |-> EmptyPayload]

MapValue(payload) == [kind |-> "map", text |-> "", map |-> payload]

AgentResult(success, result, iterations, err) ==
  [Success |-> success, Result |-> result, Iterations |-> iterations,
   Error |-> err]

ZeroAgentResult == AgentResult(FALSE, NilValue, 0, NoError)

\* the prompts of the configuration; the format holds one %s
SystemPrompt == <<"S", "E", "O">>

UserPromptFormat ==
  [prefix |-> <<"a", "b", "o", "u", "t", " ", "\"">>, suffix |-> <<"\"", ".">>]

\* fmt.Sprintf with one %s
Sprintf(format, arg) == format.prefix \o arg \o format.suffix

DefaultTheme == <<"a", "r", "t">>

Themes == { <<"S", "c", "i", "F", "i">>, DefaultTheme }

initializeMessages(input) ==
  << [role |-> "system", text |-> SystemPrompt],
     [role |-> "user", text |-> Sprintf(UserPromptFormat, input)] >>

\* what observe returns and assigns, from state.result and state.completed
Observed(err, result, completed) ==
  [err |-> err, result |-> result, completed |-> completed]

\* variant: a plain-text reply completes the task
observe_TextCompletes(result, completed, resp) ==
  IF resp.choices = 0
    THEN Observed(<<"no response choices received">>, result, completed)
    ELSE IF resp.toolCalls > 0
           THEN IF ~resp.parses
                  THEN Observed(<<"failed to parse tool arguments", "json error">>,
                                result, completed)
                  ELSE Observed(NoError, MapValue(resp.payload), TRUE)
           ELSE IF resp.text # ""
                  THEN Observed(NoError, TextValue(resp.text), TRUE)
                  ELSE Observed(<<"unexpected response format">>, result, completed)

\* variant: a tool call does not replace a text stored earlier
observe_KeepsText(result, completed, resp) ==
  IF resp.choices = 0
    THEN Observed(<<"no response choices received">>, result, completed)
    ELSE IF resp.toolCalls > 0
           THEN IF ~resp.parses
                  THEN Observed(<<"failed to parse tool arguments", "json error">>,
                                result, completed)
                  ELSE Observed(NoError,
                                IF result.kind = "text" THEN result
                                ELSE MapValue(resp.payload), TRUE)
           ELSE IF resp.text # ""
                  THEN Observed(NoError, TextValue(resp.text), completed)
                  ELSE Observed(<<"unexpected response format">>, result, completed)

observe(result, completed, resp) ==
  IF resp.choices = 0
    THEN Observed(<<"no response choices received">>, result, completed)
    ELSE IF resp.toolCalls > 0
           THEN IF ~resp.parses
                  THEN Observed(<<"failed to parse tool arguments", "json error">>,
                                result, completed)
                  ELSE Observed(NoError, MapValue(resp.payload), TRUE)
           ELSE IF resp.text # ""
                  THEN Observed(NoError, TextValue(resp.text), completed)
                  ELSE Observed(<<"unexpected response format">>, result, completed)

\* the outcome of a helper that may panic
Extracted(strings, err, panics) ==
  [strings |-> strings, err |-> err, panics |-> panics]

\* the loop of unchecked assertions element.(string)
AssertStrings(items) ==
  IF \E i \in 1..Len(items) : items[i].kind # "string"
    THEN Extracted(<<>>, NoError, TRUE)
    ELSE Extracted([i \in 1..Len(items) |-> items[i].str], NoError, FALSE)

ExtractKeywords(agentResult) ==
  IF ~agentResult.Success
    THEN Extracted(<<>>, agentResult.Error, FALSE)
    ELSE IF /\ agentResult.Result.kind = "map"
            /\ agentResult.Result.map.keywords.kind = "array"
           THEN AssertStrings(agentResult.Result.map.keywords.items)
           ELSE Extracted(<<>>, <<"result does not contain keywords">>, FALSE)

ExtractSearchTerms(agentResult) ==
  IF ~agentResult.Success
    THEN Extracted(<<>>, agentResult.Error, FALSE)
    ELSE IF /\ agentResult.Result.kind = "map"
            /\ agentResult.Result.map.search_terms.kind = "array"
           THEN AssertStrings(agentResult.Result.map.search_terms.items)
           ELSE Extracted(<<>>, <<"result does not contain search_terms">>, FALSE)

\* json.Unmarshal into struct { Keywords []string `json:"keywords"` }:
\* an absent field leaves the nil slice, a value that is no array of strings
\* is an error
UnmarshalKeywords(resp) ==
  LET v == resp.payload.keywords
  IN  IF ~resp.parses
        THEN Extracted(<<>>, <<"json error">>, FALSE)
        ELSE IF v.kind = "absent"
               THEN Extracted(<<>>, NoError, FALSE)
               ELSE IF v.kind = "array"
                         /\ \A i \in 1..Len(v.items) : v.items[i].kind = "string"
                      THEN Extracted([i \in 1..Len(v.items) |-> v.items[i].str],
                                     NoError, FALSE)
                      ELSE Extracted(<<>>, <<"json error">>, FALSE)

\* generateKeywords calling the model directly, from the response on
generateKeywordsDirect(theme, resp) ==
  IF resp.err # ""
    THEN Result(<<>>, <<"AI failed", resp.err>>)
    ELSE IF /\ resp.choices > 0
            /\ resp.toolCalls > 0
            /\ UnmarshalKeywords(resp).err = NoError
           THEN Result(Append(UnmarshalKeywords(resp).strings, ToLower(theme)),
                       NoError)
           ELSE Result(<<>>, <<"no valid tool call">>)

\* observations of a driver response, independent of the code that handles it
IsParseableToolCall(resp) ==
  resp.err = "" /\ resp.choices > 0 /\ resp.toolCalls > 0 /\ resp.parses

IsPlainText(resp) ==
  resp.err = "" /\ resp.choices > 0 /\ resp.toolCalls = 0 /\ resp.text # ""

LacksKeywords(resp) ==
  IsParseableToolCall(resp) /\ resp.payload.keywords.kind = "absent"

\* ------------------------------------------------------------------------
\* The refinement request
\* ------------------------------------------------------------------------
\* the %d verb of fmt.Sprintf on a number that is not negative
Itoa(n) ==
  LET digit == <<"0", "1", "2", "3", "4", "5", "6", "7", "8", "9">>
      digits[k \in 0..n] ==
        IF k < 10 THEN digit[k + 1]
        ELSE digits[k \div 10] \o digit[(k % 10) + 1]
  IN  digits[n]

\* a Go string as one text, from its characters
Str(chars) == Join(chars, "")

\* "%d. %s" for every term, the lines joined with "\n"
formatTermsForPrompt(terms) ==
  Join([i \in 1..Len(terms) |-> Itoa(i) \o ". " \o Str(terms[i])], "\n")

RefineSystemPrompt ==
  "You are a SEO search term refinement specialist. You improve existing search terms by adding missing patterns and increasing diversity."

\* the format of the user prompt with its six verbs filled in: the number
\* of current terms, the theme, the formatted terms, the missing patterns
\* and, twice, the target count
RefineUserPrompt(count, themeText, termsText, missingText, target) ==
     "Refine these " \o count \o " search terms for theme \"" \o themeText
  \o "\":\n\nCURRENT TERMS:\n" \o termsText
  \o "\n\nMISSING PATTERNS:\n" \o missingText
  \o "\n\nGenerate EXACTLY " \o target \o " improved search terms that:\n"
  \o "1. Keep the good ones from current terms\n"
  \o "2. Add new terms covering missing patterns\n"
  \o "3. Ensure high diversity and conversion focus\n\n"
  \o "Use the submit_search_terms tool with EXACTLY " \o target \o " terms."

\* req.Messages of refineTermsIteration
refineRequest(agentTheme, terms, qual) ==
  << [role |-> "system", text |-> RefineSystemPrompt],
     [role |-> "user",
      text |-> RefineUserPrompt(Itoa(Len(terms)), Str(agentTheme),
                                formatTermsForPrompt(terms),
                                identifyMissingPatterns(qual),
                                Itoa(TARGET_SEARCH_TERM_COUNT))] >>

\* no request is being built
NoRequest == <<>>

\* ------------------------------------------------------------------------
\* State
\* ------------------------------------------------------------------------
VARIABLES
  pc,            \* position of Generate: start, initial_call, loop, evaluated,
                 \* refine_call, returned
  currentTerms,  \* a.currentTerms
  iteration,     \* a.iteration
  quality,       \* the local quality of the loop body (zero value out of scope)
  retTerms,      \* returned []string
  retErr,        \* returned error, as its chain of messages
  reportedCalls, \* the "total API calls" of the final log line
  initialCalls,  \* observation: generation calls issued
  refineCalls,   \* observation: refinement calls issued
  lastCall,      \* observation: kind of the most recent call
  lastErr,       \* observation: error of the most recent call ("" when none)
  lastOutcome,   \* observation: Outcome of the most recent response
  lastTerms,     \* observation: term list of the most recent ok response
  lastCount,     \* observation: term count of the most recent decoded payload
  allOk,         \* observation: every response so far was ok
  goodSeen,      \* observation: some ok response carried a good-enough list
  theme,         \* a.theme
  request,       \* the messages of the refinement request in flight
  qin,           \* a quality report given to isGoodEnough
  qout,          \* the answer of isGoodEnough on qin
  mout,          \* the answer of identifyMissingPatterns on qin
  ein,           \* a term list given to evaluateSearchTermQuality
  eout,          \* the report of evaluateSearchTermQuality on ein
  dpc,           \* position of RunAgent: idle, start, loop, act_call, returned
  dMaxIterations, \* config.MaxIterations
  dInput,        \* the input argument of RunAgent
  dIteration,    \* state.iteration
  dMessages,     \* state.messages
  dPhase,        \* state.phase
  dResult,       \* state.result
  dCompleted,    \* state.completed
  dRet,          \* the returned AgentResult (zero value before the return)
  dCalls,        \* observation: calls issued by act
  dSent,         \* observation: the messages of the most recent request
  dLastResp,     \* observation: the most recent response
  dToolSeen,     \* observation: some response carried a parseable tool call
  dAllText,      \* observation: every response so far was a plain-text reply
  kpc,           \* position of generateKeywords: idle, start, call, agent,
                 \* returned, panicked
  kVariant,      \* which generateKeywords runs: "direct" or "agent"
  kTheme,        \* the theme argument
  kKeywords,     \* returned []string
  kErr,          \* returned error, as its chain of messages
  kLastResp,     \* observation: the response of the direct call
  spc,           \* position of generateSearchTerms on RunAgent: idle, start,
                 \* agent, returned, panicked
  sTheme,        \* the theme argument
  sTerms,        \* returned []string
  sErr           \* returned error, as its chain of messages

agentVars ==
  <<pc, currentTerms, iteration, quality, retTerms, retErr, reportedCalls,
    initialCalls, refineCalls, lastCall, lastErr, lastOutcome, lastTerms, lastCount,
    allOk, goodSeen, theme, request>>

predVars == <<qin, qout, mout>>

evalVars == <<ein, eout>>

driverVars ==
  <<dpc, dMaxIterations, dInput, dIteration, dMessages, dPhase, dResult,
    dCompleted, dRet, dCalls, dSent, dLastResp, dToolSeen, dAllText>>

kwVars == <<kpc, kVariant, kTheme, kKeywords, kErr, kLastResp>>

stVars == <<spc, sTheme, sTerms, sErr>>

vars == <<agentVars, predVars, evalVars, driverVars, kwVars, stVars>>

\* what a step of Generate leaves alone (it only reads the theme)
nonAgentVars == <<theme, predVars, evalVars, driverVars, kwVars, stVars>>

\* NewSearchTermAgent, before Generate runs
InitAgent ==
  /\ pc = "start"
  /\ currentTerms = <<>>
  /\ iteration = 0
  /\ quality = ZeroQuality(0)
  /\ retTerms = <<>>
  /\ retErr = NoError
  /\ reportedCalls = 0
  /\ initialCalls = 0
  /\ refineCalls = 0
  /\ lastCall = "none"
  /\ lastErr = ""
  /\ lastOutcome = "none"
  /\ lastTerms = <<>>
  /\ lastCount = -1
  /\ allOk = TRUE
  /\ goodSeen = FALSE
  /\ request = NoRequest

\* the other state machines at rest
IdlePred ==
  /\ qin = ZeroQuality(0)
  /\ qout = isGoodEnough(ZeroQuality(0))
  /\ mout = identifyMissingPatterns(ZeroQuality(0))

IdleEval ==
  /\ ein = <<>>
  /\ eout = evaluateSearchTermQuality(<<>>)

\* the driver before RunAgent builds its state, at position p with
\* configuration maxIterations and argument input
DriverAt(p, maxIterations, input) ==
  /\ dpc = p
  /\ dMaxIterations = maxIterations
  /\ dInput = input
  /\ dIteration = 0
  /\ dMessages = <<>>
  /\ dPhase = ""
  /\ dResult = NilValue
  /\ dCompleted = FALSE
  /\ dRet = ZeroAgentResult
  /\ dCalls = 0
  /\ dSent = <<>>
  /\ dLastResp = NoResponseYet
  /\ dToolSeen = FALSE
  /\ dAllText = TRUE

IdleDriver == DriverAt("idle", 0, <<>>)

IdleKeywords ==
  /\ kpc = "idle"
  /\ kVariant = "none"
  /\ kTheme = <<>>
  /\ kKeywords = <<>>
  /\ kErr = NoError
  /\ kLastResp = NoResponseYet

IdleSearchTerms ==
  /\ spc = "idle"
  /\ sTheme = <<>>
  /\ sTerms = <<>>
  /\ sErr = NoError

Init ==
  /\ InitAgent
  /\ theme \in Themes
  /\ IdlePred
  /\ IdleEval
  /\ IdleDriver
  /\ IdleKeywords
  /\ IdleSearchTerms

\* ------------------------------------------------------------------------
\* SearchTermAgent.Generate
\* ------------------------------------------------------------------------
\* variant: the loop bound is inclusive
LoopCondition_Inclusive(it) == it <= MAX_REFINEMENT_ITERATIONS

\* variant: the loop stops one iteration early
LoopCondition_OneLess(it) == it < MAX_REFINEMENT_ITERATIONS - 1

\* the condition of the for loop
LoopCondition(it) == it < MAX_REFINEMENT_ITERATIONS

\* variant: the break on a good-enough evaluation is missing
QualityTargetReached_NoBreak(qual) == FALSE

\* the check `if a.isGoodEnough(quality)` of the loop body
QualityTargetReached(qual) == isGoodEnough(qual)

\* the final log line and `return a.currentTerms, nil`
Finish(terms, it) ==
  /\ retTerms' = terms
  /\ retErr' = NoError
  /\ reportedCalls' = it + 1
  /\ quality' = ZeroQuality(0)
  /\ pc' = "returned"

Observe(kind, resp) ==
  /\ lastCall' = kind
  /\ lastErr' = resp.err
  /\ lastOutcome' = Outcome(resp)
  /\ lastTerms' = IF Outcome(resp) = "ok" THEN resp.search_terms ELSE lastTerms
  /\ lastCount' = IF Outcome(resp) \in {"ok", "wrong_count"}
                    THEN Len(resp.search_terms) ELSE -1
  /\ allOk' = (allOk /\ Outcome(resp) = "ok")
  /\ goodSeen' = (goodSeen \/ (Outcome(resp) = "ok" /\ resp.search_terms \in GoodLists))

\* CALL 1 is issued
CallInitial ==
  /\ pc = "start"
  /\ pc' = "initial_call"
  /\ initialCalls' = initialCalls + 1
  /\ UNCHANGED <<currentTerms, iteration, quality, retTerms, retErr,
                 reportedCalls, refineCalls, lastCall, lastErr, lastOutcome, lastTerms,
                 lastCount, allOk, goodSeen, request, nonAgentVars>>

\* variant: the error of the initial call is not checked
InitialReturn_IgnoresError(resp) ==
  /\ pc = "initial_call"
  /\ Observe("initial", resp)
  /\ currentTerms' = callResult(resp).terms
  /\ pc' = "loop"
  /\ UNCHANGED <<retTerms, retErr>>
  /\ UNCHANGED <<iteration, quality, reportedCalls, initialCalls, refineCalls,
                 request, nonAgentVars>>

\* variant: the initial call is counted as an iteration
InitialReturn_CountsInitial(resp) ==
  /\ pc = "initial_call"
  /\ Observe("initial", resp)
  /\ LET r == callResult(resp)
     IN  IF r.err # NoError
           THEN /\ retTerms' = <<>>
                /\ retErr' = <<"initial generation failed">> \o r.err
                /\ pc' = "returned"
                /\ UNCHANGED <<currentTerms, iteration>>
           ELSE /\ currentTerms' = r.terms
                /\ iteration' = iteration + 1
                /\ pc' = "loop"
                /\ UNCHANGED <<retTerms, retErr>>
  /\ UNCHANGED <<quality, reportedCalls, initialCalls, refineCalls,
                 request, nonAgentVars>>

\* variant: the cause of the failure is not wrapped
InitialReturn_DropsCause(resp) ==
  /\ pc = "initial_call"
  /\ Observe("initial", resp)
  /\ LET r == callResult(resp)
     IN  IF r.err # NoError
           THEN /\ retTerms' = <<>>
                /\ retErr' = <<"initial generation failed">>
                /\ pc' = "returned"
                /\ UNCHANGED currentTerms
           ELSE /\ currentTerms' = r.terms
                /\ pc' = "loop"
                /\ UNCHANGED <<retTerms, retErr>>
  /\ UNCHANGED <<iteration, quality, reportedCalls, initialCalls, refineCalls,
                 request, nonAgentVars>>

\* CALL 1 returns
InitialReturn(resp) ==
  /\ pc = "initial_call"
  /\ Observe("initial", resp)
  /\ LET r == callResult(resp)
     IN  IF r.err # NoError
           THEN /\ retTerms' = <<>>
                /\ retErr' = <<"initial generation failed">> \o r.err
                /\ pc' = "returned"
                /\ UNCHANGED currentTerms
           ELSE /\ currentTerms' = r.terms
                /\ pc' = "loop"
                /\ UNCHANGED <<retTerms, retErr>>
  /\ UNCHANGED <<iteration, quality, reportedCalls, initialCalls, refineCalls,
                 request, nonAgentVars>>

\* the loop condition is false: fall out of the loop and return
LoopExit ==
  /\ pc = "loop"
  /\ ~LoopCondition(iteration)
  /\ Finish(currentTerms, iteration)
  /\ UNCHANGED <<currentTerms, iteration, initialCalls, refineCalls,
                 lastCall, lastErr, lastOutcome, lastTerms, lastCount, allOk, goodSeen,
                 request, nonAgentVars>>

\* variant: the terms are lower-cased in place instead of in a copy
Evaluate_InPlace ==
  /\ pc = "loop"
  /\ LoopCondition(iteration)
  /\ quality' = evaluateSearchTermQuality(currentTerms)
  /\ currentTerms' = [i \in 1..Len(currentTerms) |-> ToLower(currentTerms[i])]
  /\ pc' = "evaluated"
  /\ UNCHANGED <<iteration, retTerms, retErr, reportedCalls,
                 initialCalls, refineCalls, lastCall, lastErr, lastOutcome, lastTerms,
                 lastCount, allOk, goodSeen, request, nonAgentVars>>

\* the loop condition holds: the quality is evaluated locally
Evaluate ==
  /\ pc = "loop"
  /\ LoopCondition(iteration)
  /\ quality' = evaluateSearchTermQuality(currentTerms)
  /\ pc' = "evaluated"
  /\ UNCHANGED <<currentTerms, iteration, retTerms, retErr, reportedCalls,
                 initialCalls, refineCalls, lastCall, lastErr, lastOutcome, lastTerms,
                 lastCount, allOk, goodSeen, request, nonAgentVars>>

\* the quality target is reached: break and return
LoopGoodEnough ==
  /\ pc = "evaluated"
  /\ QualityTargetReached(quality)
  /\ Finish(currentTerms, iteration)
  /\ UNCHANGED <<currentTerms, iteration, initialCalls, refineCalls,
                 lastCall, lastErr, lastOutcome, lastTerms, lastCount, allOk, goodSeen,
                 request, nonAgentVars>>

\* variant: the previous exchange is sent along with the new prompts
LoopRefine_WithHistory ==
  /\ pc = "evaluated"
  /\ ~QualityTargetReached(quality)
  /\ pc' = "refine_call"
  /\ refineCalls' = refineCalls + 1
  /\ request' = IF iteration = 0
                  THEN refineRequest(theme, currentTerms, quality)
                  ELSE refineRequest(theme, currentTerms, quality)
                         \o <<[role |-> "assistant",
                               text |-> formatTermsForPrompt(lastTerms)]>>
  /\ UNCHANGED <<currentTerms, iteration, quality, retTerms, retErr, reportedCalls,
                 initialCalls, lastCall, lastErr, lastOutcome, lastTerms, lastCount,
                 allOk, goodSeen, nonAgentVars>>

\* the quality target is missed: refineTermsIteration builds its request
\* and the refinement call is issued
LoopRefine ==
  /\ pc = "evaluated"
  /\ ~QualityTargetReached(quality)
  /\ pc' = "refine_call"
  /\ refineCalls' = refineCalls + 1
  /\ request' = refineRequest(theme, currentTerms, quality)
  /\ UNCHANGED <<currentTerms, iteration, quality, retTerms, retErr, reportedCalls,
                 initialCalls, lastCall, lastErr, lastOutcome, lastTerms, lastCount,
                 allOk, goodSeen, nonAgentVars>>

\* variant: the result is stored before the error is checked
RefineReturn_StoresFirst(resp) ==
  /\ pc = "refine_call"
  /\ Observe("refine", resp)
  /\ LET r == callResult(resp)
     IN  IF r.err # NoError
           THEN /\ Finish(r.terms, iteration)
                /\ currentTerms' = r.terms
                /\ UNCHANGED iteration
           ELSE /\ currentTerms' = r.terms
                /\ iteration' = iteration + 1
                /\ quality' = ZeroQuality(0)
                /\ pc' = "loop"
                /\ UNCHANGED <<retTerms, retErr, reportedCalls>>
  /\ request' = NoRequest
  /\ UNCHANGED <<initialCalls, refineCalls, nonAgentVars>>

\* variant: a failed refinement is fatal, an error and no terms are returned
RefineReturn_FailsHard(resp) ==
  /\ pc = "refine_call"
  /\ Observe("refine", resp)
  /\ LET r == callResult(resp)
     IN  IF r.err # NoError
           THEN /\ retTerms' = <<>>
                /\ retErr' = <<"refinement failed">> \o r.err
                /\ quality' = ZeroQuality(0)
                /\ pc' = "returned"
                /\ UNCHANGED <<currentTerms, iteration, reportedCalls>>
           ELSE /\ currentTerms' = r.terms
                /\ iteration' = iteration + 1
                /\ quality' = ZeroQuality(0)
                /\ pc' = "loop"
                /\ UNCHANGED <<retTerms, retErr, reportedCalls>>
  /\ request' = NoRequest
  /\ UNCHANGED <<initialCalls, refineCalls, nonAgentVars>>

\* variant: a failed refinement is counted and the loop goes on
RefineReturn_Retries(resp) ==
  /\ pc = "refine_call"
  /\ Observe("refine", resp)
  /\ LET r == callResult(resp)
     IN  /\ currentTerms' = IF r.err # NoError THEN currentTerms ELSE r.terms
         /\ iteration' = iteration + 1
         /\ quality' = ZeroQuality(0)
         /\ pc' = "loop"
         /\ UNCHANGED <<retTerms, retErr, reportedCalls>>
  /\ request' = NoRequest
  /\ UNCHANGED <<initialCalls, refineCalls, nonAgentVars>>

\* a refinement call returns
RefineReturn(resp) ==
  /\ pc = "refine_call"
  /\ Observe("refine", resp)
  /\ LET r == callResult(resp)
     IN  IF r.err # NoError
           THEN /\ Finish(currentTerms, iteration)
                /\ UNCHANGED <<currentTerms, iteration>>
           ELSE /\ currentTerms' = r.terms
                /\ iteration' = iteration + 1
                /\ quality' = ZeroQuality(0)
                /\ pc' = "loop"
                /\ UNCHANGED <<retTerms, retErr, reportedCalls>>
  /\ request' = NoRequest
  /\ UNCHANGED <<initialCalls, refineCalls, nonAgentVars>>

Next ==
  \/ CallInitial
  \/ \E resp \in Responses : InitialReturn(resp)
  \/ LoopExit
  \/ Evaluate
  \/ LoopGoodEnough
  \/ LoopRefine
  \/ \E resp \in Responses : RefineReturn(resp)

Spec == Init /\ [][Next]_vars

\* responses of a run that is followed to its end: failed calls, responses
\* without a usable payload, a wrong count, lists with no, three, four and
\* six pattern categories and with few or many repeated words
FairResponses ==
       {Response(e, 0, 0, FALSE, <<>>) : e \in {"transport error", "context canceled"}}
  \cup {Response("", 1, 0, FALSE, <<>>), Response("", 1, 1, FALSE, <<>>),
        Response("", 1, 1, TRUE, MkTerms(1..Len(Exemplar), 0, 12))}
  \cup {Response("", 1, 1, TRUE, MkTerms(S, r, TARGET_SEARCH_TERM_COUNT)) :
          S \in {{}, 1..3, 1..4, 1..Len(Exemplar)}, r \in {0, MaxRepeat}}

NextFair ==
  \/ CallInitial
  \/ \E resp \in FairResponses : InitialReturn(resp)
  \/ LoopExit
  \/ Evaluate
  \/ LoopGoodEnough
  \/ LoopRefine
  \/ \E resp \in FairResponses : RefineReturn(resp)

\* Generate is one sequential function: whenever a step is possible the next
\* step is taken, and every call that was issued returns
SpecFair == Init /\ [][NextFair]_vars /\ WF_vars(NextFair)

\* ------------------------------------------------------------------------
\* The good-enough predicate on bare quality reports
\* ------------------------------------------------------------------------
\* ratios n / d in [0, 1], written <<n, d>>
DiversityScores ==
  {x \in (0..MaxTotalWords) \X (1..MaxTotalWords) : x[1] <= x[2]}

TermCounts ==
  {0} \cup ((TARGET_SEARCH_TERM_COUNT - MaxCountDelta)..(TARGET_SEARCH_TERM_COUNT + MaxCountDelta))

QualityReports ==
  [HasComparisons : BOOLEAN, HasQuestions : BOOLEAN, HasBestLists : BOOLEAN,
   HasValueTerms : BOOLEAN, HasFormatMix : BOOLEAN, HasUserIntent : BOOLEAN,
   DiversityScore : DiversityScores, TermCount : TermCounts]

\* the first report is an extreme one: no flag or every flag set, diversity
\* 0 or 1, no term or N terms; the steps below reach every other report
InitPred ==
  /\ InitAgent
  /\ theme = DefaultTheme
  /\ qin \in {r \in QualityReports :
                /\ \A f \in FlagNames : r[f] = r.HasComparisons
                /\ r.DiversityScore \in {<<0, 1>>, <<1, 1>>}
                /\ r.TermCount \in {0, TARGET_SEARCH_TERM_COUNT}}
  /\ qout = isGoodEnough(qin)
  /\ mout = identifyMissingPatterns(qin)
  /\ IdleEval
  /\ IdleDriver
  /\ IdleKeywords
  /\ IdleSearchTerms

\* isGoodEnough on the report with one field replaced
GoodEnoughOf(report) ==
  /\ qin' = report
  /\ qout' = isGoodEnough(report)
  /\ mout' = identifyMissingPatterns(report)
  /\ UNCHANGED <<agentVars, evalVars, driverVars, kwVars, stVars>>

PredSetFlag(f) ==
  /\ ~qin[f]
  /\ GoodEnoughOf([qin EXCEPT ![f] = TRUE])

PredClearFlag(f) ==
  /\ qin[f]
  /\ GoodEnoughOf([qin EXCEPT ![f] = FALSE])

PredSetDiversity(d) ==
  /\ d # qin.DiversityScore
  /\ GoodEnoughOf([qin EXCEPT !.DiversityScore = d])

PredSetTermCount(n) ==
  /\ n # qin.TermCount
  /\ GoodEnoughOf([qin EXCEPT !.TermCount = n])

NextPred ==
  \/ \E f \in FlagNames : PredSetFlag(f)
  \/ \E f \in FlagNames : PredClearFlag(f)
  \/ \E d \in DiversityScores : PredSetDiversity(d)
  \/ \E n \in TermCounts : PredSetTermCount(n)

SpecPred == InitPred /\ [][NextPred]_vars

\* ------------------------------------------------------------------------
\* The quality evaluator on bare term lists
\* ------------------------------------------------------------------------
\* terms with no word, one word, repeated words, upper case, tabs
EvalTerms ==
  { <<>>, <<" ">>, <<"a">>, <<"A">>, <<"a", " ", "b">>,
    <<"a", " ", " ", "a">>, <<"\t", "b", " ">>,
    Exemplar[1], Exemplar[2], Exemplar[3], Exemplar[4], Exemplar[5],
    Exemplar[6] }

\* the first list is empty or one term repeated MaxEvalTerms times
InitEval ==
  /\ InitAgent
  /\ theme = DefaultTheme
  /\ IdlePred
  /\ ein \in {<<>>} \cup {[i \in 1..MaxEvalTerms |-> t] : t \in EvalTerms}
  /\ eout = evaluateSearchTermQuality(ein)
  /\ IdleDriver
  /\ IdleKeywords
  /\ IdleSearchTerms

\* evaluateSearchTermQuality on a list
EvaluateList(terms) ==
  /\ ein' = terms
  /\ eout' = evaluateSearchTermQuality(terms)
  /\ UNCHANGED <<agentVars, predVars, driverVars, kwVars, stVars>>

EvalAppend(t) ==
  /\ Len(ein) < MaxEvalTerms
  /\ EvaluateList(Append(ein, t))

EvalDropFirst ==
  /\ ein # <<>>
  /\ EvaluateList(Tail(ein))

NextEval ==
  \/ \E t \in EvalTerms : EvalAppend(t)
  \/ EvalDropFirst

SpecEval == InitEval /\ [][NextEval]_vars

\* ------------------------------------------------------------------------
\* The generic driver (RunAgent)
\* ------------------------------------------------------------------------
\* what a step of RunAgent leaves alone
nonDriverVars == <<agentVars, predVars, evalVars, kwVars, stVars>>

\* RunAgent is called with a configuration and an input
InitDriver ==
  /\ InitAgent
  /\ theme = DefaultTheme
  /\ IdlePred
  /\ IdleEval
  /\ \E m \in (-1)..MaxConfigIterations, input \in Themes :
       DriverAt("start", m, input)
  /\ IdleKeywords
  /\ IdleSearchTerms

\* variant: the budget is inclusive
DriverLoopCondition_Inclusive(it, maxIterations, completed) ==
  it <= maxIterations /\ ~completed

\* the condition of the for loop
DriverLoopCondition(it, maxIterations, completed) ==
  it < maxIterations /\ ~completed

\* an AgentResult is returned
DriverReturn(agentResult) ==
  /\ dRet' = agentResult
  /\ dpc' = "returned"

\* the observations of a response
DriverObserve(resp) ==
  /\ dLastResp' = resp
  /\ dToolSeen' = (dToolSeen \/ IsParseableToolCall(resp))
  /\ dAllText' = (dAllText /\ IsPlainText(resp))

\* the state is built
RunAgentStart ==
  /\ dpc = "start"
  /\ dIteration' = 0
  /\ dMessages' = initializeMessages(dInput)
  /\ dPhase' = "THINK"
  /\ dCompleted' = FALSE
  /\ dResult' = NilValue
  /\ dpc' = "loop"
  /\ UNCHANGED <<dMaxIterations, dInput, dRet, dCalls, dSent, dLastResp,
                 dToolSeen, dAllText, nonDriverVars>>

\* variant: the iteration is also counted in the counter of Generate
DriverAct_SharedCounter ==
  /\ dpc = "loop"
  /\ DriverLoopCondition(dIteration, dMaxIterations, dCompleted)
  /\ dIteration' = dIteration + 1
  /\ iteration' = iteration + 1
  /\ dPhase' = "ACT"
  /\ dSent' = dMessages
  /\ dCalls' = dCalls + 1
  /\ dpc' = "act_call"
  /\ UNCHANGED <<dMaxIterations, dInput, dMessages, dResult, dCompleted, dRet,
                 dLastResp, dToolSeen, dAllText, predVars, evalVars, kwVars,
                 stVars>>
  /\ UNCHANGED <<pc, currentTerms, quality, retTerms, retErr, reportedCalls,
                 initialCalls, refineCalls, lastCall, lastErr, lastOutcome,
                 lastTerms, lastCount, allOk, goodSeen, theme, request>>

\* the loop condition holds: the counter is incremented, think returns
\* nil, act builds the request from state.messages and issues the call
DriverAct ==
  /\ dpc = "loop"
  /\ DriverLoopCondition(dIteration, dMaxIterations, dCompleted)
  /\ dIteration' = dIteration + 1
  /\ dPhase' = "ACT"
  /\ dSent' = dMessages
  /\ dCalls' = dCalls + 1
  /\ dpc' = "act_call"
  /\ UNCHANGED <<dMaxIterations, dInput, dMessages, dResult, dCompleted, dRet,
                 dLastResp, dToolSeen, dAllText, nonDriverVars>>

\* variant: a failed call or an unusable response is retried
DriverActReturn_Retries(resp) ==
  /\ dpc = "act_call"
  /\ DriverObserve(resp)
  /\ IF resp.err # ""
       THEN /\ dpc' = "loop"
            /\ UNCHANGED <<dPhase, dResult, dCompleted, dRet>>
       ELSE LET o == observe(dResult, dCompleted, resp)
            IN  IF o.err # NoError
                  THEN /\ dpc' = "loop"
                       /\ dPhase' = "OBSERVE"
                       /\ UNCHANGED <<dResult, dCompleted, dRet>>
                  ELSE /\ dResult' = o.result
                       /\ dCompleted' = o.completed
                       /\ dPhase' = "REFINE"
                       /\ IF o.completed
                            THEN DriverReturn(AgentResult(TRUE, o.result, dIteration,
                                                          NoError))
                            ELSE dpc' = "loop" /\ UNCHANGED dRet
  /\ UNCHANGED <<dMaxIterations, dInput, dIteration, dMessages, dCalls, dSent,
                 nonDriverVars>>

\* the call returns: act's error check, observe, refine
DriverActReturn(resp) ==
  /\ dpc = "act_call"
  /\ DriverObserve(resp)
  /\ IF resp.err # ""
       THEN /\ DriverReturn(AgentResult(FALSE, NilValue, dIteration,
                                        <<"action failed", resp.err>>))
            /\ UNCHANGED <<dPhase, dResult, dCompleted>>
       ELSE LET o == observe(dResult, dCompleted, resp)
            IN  IF o.err # NoError
                  THEN /\ DriverReturn(AgentResult(FALSE, NilValue, dIteration, o.err))
                       /\ dPhase' = "OBSERVE"
                       /\ UNCHANGED <<dResult, dCompleted>>
                  ELSE /\ dResult' = o.result
                       /\ dCompleted' = o.completed
                       /\ dPhase' = "REFINE"
                       /\ IF o.completed
                            THEN DriverReturn(AgentResult(TRUE, o.result, dIteration,
                                                          NoError))
                            ELSE dpc' = "loop" /\ UNCHANGED dRet
  /\ UNCHANGED <<dMaxIterations, dInput, dIteration, dMessages, dCalls, dSent,
                 nonDriverVars>>

\* variant: the interim result is handed back when the budget is used up
DriverLoopExit_PartialResult ==
  /\ dpc = "loop"
  /\ ~DriverLoopCondition(dIteration, dMaxIterations, dCompleted)
  /\ DriverReturn(AgentResult(dCompleted, dResult, dIteration,
                              IF dCompleted THEN NoError
                              ELSE <<"max iterations reached without completion">>))
  /\ UNCHANGED <<dMaxIterations, dInput, dIteration, dMessages, dPhase, dResult,
                 dCompleted, dCalls, dSent, dLastResp, dToolSeen, dAllText,
                 nonDriverVars>>

\* the loop condition is false: the code after the loop
DriverLoopExit ==
  /\ dpc = "loop"
  /\ ~DriverLoopCondition(dIteration, dMaxIterations, dCompleted)
  /\ IF ~dCompleted
       THEN DriverReturn(AgentResult(FALSE, NilValue, dIteration,
                           <<"max iterations reached without completion">>))
       ELSE DriverReturn(AgentResult(TRUE, dResult, dIteration, NoError))
  /\ UNCHANGED <<dMaxIterations, dInput, dIteration, dMessages, dPhase, dResult,
                 dCompleted, dCalls, dSent, dLastResp, dToolSeen, dAllText,
                 nonDriverVars>>

NextDriver ==
  \/ RunAgentStart
  \/ DriverAct
  \/ \E resp \in DriverResponses : DriverActReturn(resp)
  \/ DriverLoopExit

SpecDriver == InitDriver /\ [][NextDriver]_vars

\* ------------------------------------------------------------------------
\* generateKeywords, calling the model directly or through RunAgent
\* ------------------------------------------------------------------------
InitKeywords ==
  /\ InitAgent
  /\ theme = DefaultTheme
  /\ IdlePred
  /\ IdleEval
  /\ IdleDriver
  /\ kpc = "start"
  /\ kVariant \in {"direct", "agent"}
  /\ kTheme \in Themes
  /\ kKeywords = <<>>
  /\ kErr = NoError
  /\ kLastResp = NoResponseYet
  /\ IdleSearchTerms

\* the direct variant issues its one call
KeywordsCall ==
  /\ kpc = "start" /\ kVariant = "direct"
  /\ kpc' = "call"
  /\ UNCHANGED <<kVariant, kTheme, kKeywords, kErr, kLastResp,
                 agentVars, predVars, evalVars, driverVars, stVars>>

\* the direct call returns
KeywordsCallReturn(resp) ==
  /\ kpc = "call"
  /\ kLastResp' = resp
  /\ kKeywords' = generateKeywordsDirect(kTheme, resp).terms
  /\ kErr' = generateKeywordsDirect(kTheme, resp).err
  /\ kpc' = "returned"
  /\ UNCHANGED <<kVariant, kTheme, agentVars, predVars, evalVars, driverVars,
                 stVars>>

\* the agent variant calls RunAgent with its configuration and the theme
KeywordsRunAgent ==
  /\ kpc = "start" /\ kVariant = "agent"
  /\ dpc = "idle"
  /\ kpc' = "agent"
  /\ dpc' = "start"
  /\ dMaxIterations' = KeywordsMaxIterations
  /\ dInput' = kTheme
  /\ UNCHANGED <<dIteration, dMessages, dPhase, dResult, dCompleted, dRet,
                 dCalls, dSent, dLastResp, dToolSeen, dAllText>>
  /\ UNCHANGED <<kVariant, kTheme, kKeywords, kErr, kLastResp,
                 agentVars, predVars, evalVars, stVars>>

\* variant: the theme is put in front of the keywords, as it was given
KeywordsAgentReturn_ThemeFirst ==
  /\ kpc = "agent"
  /\ dpc = "returned"
  /\ IF ~dRet.Success
       THEN /\ kKeywords' = <<>>
            /\ kErr' = <<"agent failed">> \o dRet.Error
            /\ kpc' = "returned"
       ELSE LET x == ExtractKeywords(dRet)
            IN  IF x.panics
                  THEN kpc' = "panicked" /\ UNCHANGED <<kKeywords, kErr>>
                  ELSE IF x.err # NoError
                         THEN /\ kKeywords' = <<>>
                              /\ kErr' = x.err
                              /\ kpc' = "returned"
                         ELSE /\ kKeywords' = <<kTheme>> \o x.strings
                              /\ kErr' = NoError
                              /\ kpc' = "returned"
  /\ UNCHANGED <<kVariant, kTheme, kLastResp,
                 agentVars, predVars, evalVars, driverVars, stVars>>

\* RunAgent has returned: the success check, ExtractKeywords, the append
KeywordsAgentReturn ==
  /\ kpc = "agent"
  /\ dpc = "returned"
  /\ IF ~dRet.Success
       THEN /\ kKeywords' = <<>>
            /\ kErr' = <<"agent failed">> \o dRet.Error
            /\ kpc' = "returned"
       ELSE LET x == ExtractKeywords(dRet)
            IN  IF x.panics
                  THEN kpc' = "panicked" /\ UNCHANGED <<kKeywords, kErr>>
                  ELSE IF x.err # NoError
                         THEN /\ kKeywords' = <<>>
                              /\ kErr' = x.err
                              /\ kpc' = "returned"
                         ELSE /\ kKeywords' = Append(x.strings, ToLower(kTheme))
                              /\ kErr' = NoError
                              /\ kpc' = "returned"
  /\ UNCHANGED <<kVariant, kTheme, kLastResp,
                 agentVars, predVars, evalVars, driverVars, stVars>>

NextKeywords ==
  \/ KeywordsCall
  \/ \E resp \in DriverResponses : KeywordsCallReturn(resp)
  \/ KeywordsRunAgent
  \/ RunAgentStart
  \/ DriverAct
  \/ \E resp \in DriverResponses : DriverActReturn(resp)
  \/ DriverLoopExit
  \/ KeywordsAgentReturn

SpecKeywords == InitKeywords /\ [][NextKeywords]_vars

\* ------------------------------------------------------------------------
\* generateSearchTerms, calling the model through RunAgent
\* ------------------------------------------------------------------------
InitSearchTerms ==
  /\ InitAgent
  /\ theme = DefaultTheme
  /\ IdlePred
  /\ IdleEval
  /\ IdleDriver
  /\ IdleKeywords
  /\ spc = "start"
  /\ sTheme \in Themes
  /\ sTerms = <<>>
  /\ sErr = NoError

\* RunAgent is called with the configuration and the theme
SearchTermsRunAgent ==
  /\ spc = "start"
  /\ dpc = "idle"
  /\ spc' = "agent"
  /\ dpc' = "start"
  /\ dMaxIterations' = SearchTermsMaxIterations
  /\ dInput' = sTheme
  /\ UNCHANGED <<dIteration, dMessages, dPhase, dResult, dCompleted, dRet,
                 dCalls, dSent, dLastResp, dToolSeen, dAllText>>
  /\ UNCHANGED <<sTheme, sTerms, sErr, agentVars, predVars, evalVars, kwVars>>

\* RunAgent has returned: the success check and ExtractSearchTerms
SearchTermsAgentReturn ==
  /\ spc = "agent"
  /\ dpc = "returned"
  /\ IF ~dRet.Success
       THEN /\ sTerms' = <<>>
            /\ sErr' = <<"agent failed">> \o dRet.Error
            /\ spc' = "returned"
       ELSE LET x == ExtractSearchTerms(dRet)
            IN  IF x.panics
                  THEN spc' = "panicked" /\ UNCHANGED <<sTerms, sErr>>
                  ELSE IF x.err # NoError
                         THEN /\ sTerms' = <<>>
                              /\ sErr' = x.err
                              /\ spc' = "returned"
                         ELSE /\ sTerms' = x.strings
                              /\ sErr' = NoError
                              /\ spc' = "returned"
  /\ UNCHANGED <<sTheme, agentVars, predVars, evalVars, driverVars, kwVars>>

NextSearchTerms ==
  \/ SearchTermsRunAgent
  \/ RunAgentStart
  \/ DriverAct
  \/ \E resp \in DriverResponses
                   \cup {DriverResponse("", 1, 1, TRUE, p, "") :
                           p \in SearchTermPayloads} : DriverActReturn(resp)
  \/ DriverLoopExit
  \/ SearchTermsAgentReturn

SpecSearchTerms == InitSearchTerms /\ [][NextSearchTerms]_vars

\* ------------------------------------------------------------------------
\* The wrapper generateSearchTerms around Generate
\* ------------------------------------------------------------------------
generateSearchTerms(terms, err) ==
  IF err # NoError
    THEN Result(<<>>, <<"search term agent failed">> \o err)
    ELSE Result(terms, NoError)

\* ------------------------------------------------------------------------
\* A Generate run and a RunAgent run, interleaved step by step
\* ------------------------------------------------------------------------
\* responses of the two runs: a failed call, a response without a tool call,
\* a wrong count, a poor and a good list; a failed call, no choice, a
\* plain-text reply and a tool call
ConcResponses ==
  { Response("transport error", 0, 0, FALSE, <<>>),
    Response("", 1, 0, FALSE, <<>>),
    Response("", 1, 1, TRUE, MkTerms(1..Len(Exemplar), 0, 12)),
    Response("", 1, 1, TRUE, MkTerms({}, MaxRepeat, TARGET_SEARCH_TERM_COUNT)),
    Response("", 1, 1, TRUE, MkTerms(1..Len(Exemplar), 0, TARGET_SEARCH_TERM_COUNT)) }

ConcDriverResponses ==
  { DriverResponse("transport error", 0, 0, FALSE, EmptyPayload, ""),
    DriverResponse("", 0, 0, FALSE, EmptyPayload, ""),
    DriverResponse("", 1, 0, FALSE, EmptyPayload, "thinking"),
    DriverResponse("", 1, 1, TRUE,
                   Payload(JArray(<<JStr(Keyword1), JStr(Keyword2)>>), JAbsent), "") }

InitConc ==
  /\ InitAgent
  /\ theme = DefaultTheme
  /\ IdlePred
  /\ IdleEval
  /\ \E m \in 1..MaxConcIterations, input \in Themes : DriverAt("start", m, input)
  /\ IdleKeywords
  /\ IdleSearchTerms

NextConc ==
  \/ CallInitial
  \/ \E resp \in ConcResponses : InitialReturn(resp)
  \/ LoopExit
  \/ Evaluate
  \/ LoopGoodEnough
  \/ LoopRefine
  \/ \E resp \in ConcResponses : RefineReturn(resp)
  \/ RunAgentStart
  \/ DriverAct
  \/ \E resp \in ConcDriverResponses : DriverActReturn(resp)
  \/ DriverLoopExit

SpecConc == InitConc /\ [][NextConc]_vars

\* ------------------------------------------------------------------------
\* Properties
\* ------------------------------------------------------------------------
Calls == initialCalls + refineCalls

SetFlags(report) == {f \in FlagNames : report[f]}

\* a / b <= c / d for ratios with positive denominators
RatioLeq(x, y) == x[1] * y[2] <= y[1] * x[2]

\* C1: one run issues exactly one generation call and at most
\* MAX_REFINEMENT_ITERATIONS refinement calls, so never more than K + 1
\* external calls, whatever the calls return.
C1_CallBudget ==
  /\ initialCalls <= 1
  /\ (pc # "start" => initialCalls = 1)
  /\ refineCalls <= MAX_REFINEMENT_ITERATIONS
  /\ Calls <= MAX_REFINEMENT_ITERATIONS + 1

C1_Witness == pc = "returned" /\ Calls = MAX_REFINEMENT_ITERATIONS + 1

\* C2: when the initial generation call fails, Generate returns an error and
\* an empty (nil) term set, and no refinement call is issued.
C2_InitialFailureIsFatal ==
  (lastCall = "initial" /\ lastOutcome = "call_failed")
    => /\ pc = "returned"
       /\ retErr # NoError
       /\ retTerms = <<>>
       /\ refineCalls = 0

C2_Witness ==
  pc = "returned" /\ lastCall = "initial" /\ lastOutcome = "call_failed"

\* C3: when a refinement call fails, the candidate set is left unchanged,
\* the loop stops, and Generate returns that unchanged set with no error.
C3_RefineFailureKeepsPrior ==
  [][(pc = "refine_call" /\ lastOutcome' \in {"call_failed", "no_tool_call", "bad_json"})
       => /\ currentTerms' = currentTerms
          /\ pc' = "returned"
          /\ retTerms' = currentTerms
          /\ retErr' = NoError
          /\ Calls' = Calls]_vars

C3_Witness ==
  /\ pc = "returned" /\ lastCall = "refine" /\ lastOutcome = "call_failed"
  /\ iteration >= 1 /\ retTerms = lastTerms /\ Len(retTerms) = TARGET_SEARCH_TERM_COUNT

\* C4: when the initial call succeeds with a payload whose term count is not
\* N (12 for example), Generate returns an error and no terms, and no
\* refinement call is issued.
C4_InitialWrongCountIsFatal ==
  (lastCall = "initial" /\ lastOutcome = "wrong_count")
    => /\ pc = "returned"
       /\ retErr # NoError
       /\ retTerms = <<>>
       /\ refineCalls = 0

C4_Witness ==
  /\ pc = "returned" /\ lastCall = "initial" /\ lastOutcome = "wrong_count"
  /\ lastCount = 12

\* C5: a refinement call that succeeds with a term count other than N is
\* handled as a failed refinement call: the candidate set and the iteration
\* counter are unchanged, no further call is issued, and the prior set is
\* returned with no error.
C5_RefineWrongCountKeepsPrior ==
  [][/\ (pc = "refine_call" /\ lastOutcome' = "wrong_count")
          => /\ currentTerms' = currentTerms
             /\ iteration' = iteration
             /\ pc' = "returned"
             /\ retTerms' = currentTerms
             /\ retErr' = NoError
             /\ Calls' = Calls
     /\ (pc = "returned" /\ lastOutcome = "wrong_count") => Calls' = Calls]_vars

C5_Witness ==
  /\ pc = "returned" /\ lastCall = "refine" /\ lastOutcome = "wrong_count"
  /\ retErr = NoError /\ retTerms = lastTerms /\ lastCount # TARGET_SEARCH_TERM_COUNT

\* C6: when every call succeeds with N terms and no returned set is good
\* enough, Generate makes exactly K + 1 = 5 calls and returns, with no
\* error, the set of the last (5th) call.
C6_BudgetExhausted ==
  (pc = "returned" /\ allOk /\ ~goodSeen)
    => /\ Calls = MAX_REFINEMENT_ITERATIONS + 1
       /\ refineCalls = MAX_REFINEMENT_ITERATIONS
       /\ retErr = NoError
       /\ retTerms = lastTerms

C6_Witness == pc = "returned" /\ allOk /\ ~goodSeen /\ Calls = 5

\* C7: a refinement call is issued only when the current set is not good
\* enough and the iteration counter is below K; once a good-enough set has
\* been received no further call is issued, that set is the one returned,
\* and the calls made are 1 + the iteration counter.
C7_StopsWhenGoodEnough ==
  /\ [](goodSeen =>
          /\ pc \in {"loop", "evaluated", "returned"}
          /\ currentTerms = lastTerms
          /\ Calls = 1 + iteration
          /\ (pc = "returned" => (retTerms = lastTerms /\ retErr = NoError)))
  /\ [][/\ (refineCalls' # refineCalls) =>
               /\ ~isGoodEnough(evaluateSearchTermQuality(currentTerms))
               /\ iteration < MAX_REFINEMENT_ITERATIONS
        /\ goodSeen => Calls' = Calls]_vars

C7_Witness ==
  /\ pc = "returned" /\ goodSeen /\ Calls = 2 /\ retTerms = lastTerms

\* C8: once the initial call has succeeded the candidate set has exactly N
\* terms, and so has every term set returned without error.
C8_CandidateSetHasNTerms ==
  /\ (pc \in {"loop", "evaluated", "refine_call"}
        => Len(currentTerms) = TARGET_SEARCH_TERM_COUNT)
  /\ ((pc = "returned" /\ retErr = NoError)
        => /\ Len(retTerms) = TARGET_SEARCH_TERM_COUNT
           /\ Len(currentTerms) = TARGET_SEARCH_TERM_COUNT)

C8_Witness ==
  /\ pc = "returned" /\ retErr = NoError /\ lastOutcome = "wrong_count"
  /\ lastCount = TARGET_SEARCH_TERM_COUNT + 1
  /\ Len(retTerms) = TARGET_SEARCH_TERM_COUNT

\* C9: isGoodEnough answers true exactly when the term count is N, at least
\* 4 of the 6 pattern flags are set and the diversity score is at least 0.6.
C9_GoodEnoughPredicate ==
  qout = (/\ qin.TermCount = 15
          /\ Cardinality(SetFlags(qin)) >= 4
          /\ RatioLeq(<<3, 5>>, qin.DiversityScore))

C9_Witness ==
  /\ qout
  /\ Cardinality(SetFlags(qin)) = 4
  /\ qin.DiversityScore = <<3, 5>>

\* C10: the good-enough predicate is monotonic: from a good-enough report,
\* setting one more pattern flag or raising the diversity score, with the
\* term count and the other fields unchanged, gives a good-enough report.
C10_GoodEnoughMonotonic ==
  [][(/\ qout
      /\ qin'.TermCount = qin.TermCount
      /\ SetFlags(qin) \subseteq SetFlags(qin')
      /\ RatioLeq(qin.DiversityScore, qin'.DiversityScore))
       => qout']_vars

C10_Witness ==
  /\ qout
  /\ Cardinality(SetFlags(qin)) = 5
  /\ qin.DiversityScore = <<MaxTotalWords, MaxTotalWords>>

\* the word occurrences of a term list, found without strings.Fields:
\* <<t, i, j>> when characters i..j of term t are a maximal run of
\* non-space characters
WordOccurrences(terms) ==
  {o \in UNION {{t} \X (1..Len(terms[t])) \X (1..Len(terms[t])) : t \in 1..Len(terms)} :
     LET s == terms[o[1]]
         i == o[2]
         j == o[3]
     IN  /\ i <= j
         /\ \A k \in i..j : ~IsSpace(s[k])
         /\ (i = 1 \/ IsSpace(s[i - 1]))
         /\ (j = Len(s) \/ IsSpace(s[j + 1]))}

DistinctWords(terms) ==
  {SubSeq(terms[o[1]], o[2], o[3]) : o \in WordOccurrences(terms)}

\* the score <<n, d>> is the ratio distinct / total, inside [0, 1], and 0
\* exactly when there is no word
IsDiversityOf(score, terms) ==
  LET total    == Cardinality(WordOccurrences(terms))
      distinct == Cardinality(DistinctWords(terms))
  IN  /\ score[2] > 0 /\ 0 <= score[1] /\ score[1] <= score[2]
      /\ score[1] * total = distinct * score[2]
      /\ distinct <= total
      /\ (score[1] = 0) <=> (total = 0)

\* C11: the diversity score of a term list is the number of distinct
\* whitespace-delimited words divided by the total number of words (counted
\* on the lower-cased terms, as the evaluator passes them), lies in [0, 1],
\* and is 0 exactly when the list has no word at all.
C11_DiversityScore ==
  /\ IsDiversityOf(eout.DiversityScore, [i \in 1..Len(ein) |-> ToLower(ein[i])])
  /\ IsDiversityOf(calculateDiversity(ein), ein)

\* a list with a repeated word
C11_Witness ==
  /\ Len(ein) = 2
  /\ eout.DiversityScore = <<2, 3>>

\* the gap descriptions of the unset flags of a report, by flag name
GapOf(f) ==
  CASE f = "HasComparisons" -> GapDescriptions[1]
    [] f = "HasQuestions"   -> GapDescriptions[2]
    [] f = "HasBestLists"   -> GapDescriptions[3]
    [] f = "HasValueTerms"  -> GapDescriptions[4]
    [] f = "HasFormatMix"   -> GapDescriptions[5]
    [] f = "HasUserIntent"  -> GapDescriptions[6]

\* the lines of a text, first to last
LinesJoined(lines) ==
  LET from[i \in 1..(Len(lines) + 1)] ==
        IF i > Len(lines) THEN ""
        ELSE IF i = Len(lines) THEN lines[i]
        ELSE lines[i] \o "\n" \o from[i + 1]
  IN  from[1]

\* C13: identifyMissingPatterns yields one gap description per unset flag
\* and none for a set flag, in the order comparison, question, best/top
\* list, value, format mix, user intent; with all six flags set it yields
\* the sentinel message, which is no gap description and not empty.
C13_MissingPatterns ==
  LET unset == SelectSeq(PatternFlags, LAMBDA f : ~qin[f])
  IN  /\ unset # <<>>
        => mout = LinesJoined([i \in 1..Len(unset) |-> GapOf(unset[i])])
      /\ unset = <<>>
        => /\ mout = "None - improve diversity and specificity!"
           /\ mout # ""
           /\ \A i \in 1..Len(GapDescriptions) : mout # GapDescriptions[i]

C13_Witness ==
  /\ qin.HasComparisons /\ ~qin.HasQuestions /\ qin.HasBestLists
  /\ ~qin.HasValueTerms /\ qin.HasFormatMix /\ qin.HasUserIntent
  /\ mout = GapDescriptions[2] \o "\n" \o GapDescriptions[4]

\* C12: evaluateSearchTermQuality is a pure function of the current
\* candidate set: the evaluation step leaves the candidate set and the
\* iteration counter unchanged and issues no call, and whenever a report is
\* held it is the one determined by the current set alone, at any iteration.
C12_EvaluationIsPure ==
  /\ [][(pc = "loop" /\ pc' = "evaluated")
          => /\ currentTerms' = currentTerms
             /\ iteration' = iteration
             /\ Calls' = Calls
             /\ quality' = evaluateSearchTermQuality(currentTerms)]_vars
  /\ [](pc \in {"evaluated", "refine_call"}
          => quality = evaluateSearchTermQuality(currentTerms))

C12_Witness ==
  /\ pc = "evaluated" /\ iteration >= 1
  /\ quality.HasComparisons /\ quality.TermCount = TARGET_SEARCH_TERM_COUNT

\* C14: once an external call has failed (also by cancellation or deadline
\* expiry) no further call is issued: the run has ended, with an error and
\* no terms if the failed call was the initial one, with the prior set and
\* no error if it was a refinement call.
C14_NoRetryAfterFailure ==
  /\ [](lastOutcome = "call_failed"
          => /\ pc = "returned"
             /\ lastCall = "initial" => (retErr # NoError /\ retTerms = <<>>)
             /\ lastCall = "refine"
                  => /\ retErr = NoError
                     /\ retTerms = currentTerms
                     /\ retTerms = lastTerms)
  /\ [][lastOutcome = "call_failed" => Calls' = Calls]_vars

C14_Witness ==
  /\ pc = "returned" /\ lastCall = "refine" /\ lastErr = "context canceled"
  /\ retErr = NoError /\ Len(retTerms) = TARGET_SEARCH_TERM_COUNT

\* the budget as a number of iterations: a negative budget allows none
DriverBudget == IF dMaxIterations < 0 THEN 0 ELSE dMaxIterations

BudgetError == <<"max iterations reached without completion">>

\* C15: RunAgent returns Success = true exactly when some response within
\* the first MaxIterations iterations carried a tool call with parseable
\* arguments, and then the result is that call's payload; when the
\* iterations pass with plain-text replies only, it returns Success = false
\* with the error "max iterations reached without completion", which no
\* other failure carries.
C15_SuccessIffToolCall ==
  /\ dCalls <= DriverBudget
  /\ dpc = "returned"
       => /\ dRet.Success <=> dToolSeen
          /\ dRet.Success
               => /\ dCompleted
                  /\ dRet.Error = NoError
                  /\ dRet.Result = MapValue(dLastResp.payload)
                  /\ dRet.Iterations = dCalls
          /\ dAllText
               => /\ ~dRet.Success
                  /\ dRet.Error = BudgetError
                  /\ dCalls = DriverBudget
          /\ dRet.Error = BudgetError => dAllText

C15_Witness ==
  /\ dpc = "returned" /\ dRet.Success /\ dCalls = 2
  /\ dMaxIterations = 3
  /\ dRet.Result.map.keywords.kind = "array"

\* C16: when every response is a non-empty plain-text reply without a tool
\* call, RunAgent issues exactly MaxIterations calls and then reports
\* failure with no result: the text that observe stored in the state is not
\* handed back.
C16_TextOnlyExhaustsBudget ==
  (dpc = "returned" /\ dAllText /\ dMaxIterations >= 0)
    => /\ dCalls = dMaxIterations
       /\ dIteration = dMaxIterations
       /\ ~dRet.Success
       /\ dRet.Result = NilValue
       /\ dCalls >= 1 => (dResult.kind = "text" /\ dResult.text = dLastResp.text)

C16_Witness ==
  /\ dpc = "returned" /\ dAllText /\ dCalls = 3
  /\ dResult = TextValue("still thinking")
  /\ dRet.Result = NilValue

\* b holds every message of a, in order, and at least one more
IsStrictExtension(a, b) ==
  Len(b) > Len(a) /\ SubSeq(b, 1, Len(a)) = a

\* C17: the message sequence act sends in iteration i+1 is a strict
\* extension of the sequence it sent in iteration i (the history grows and
\* is resent in full).
C17_HistoryGrows ==
  [][(dCalls >= 1 /\ dCalls' = dCalls + 1) => IsStrictExtension(dSent, dSent')]_vars

KindOf(err) ==
  IF Len(err) < 2 \/ err[1] # "initial generation failed"
    THEN "untagged"
    ELSE IF err[2] = "no tool call in response" THEN "NoUsableResponse"
    ELSE IF err[2] \in {"expected 15 terms, got another count",
                        "failed to parse tool arguments"} THEN "SchemaViolation"
    ELSE "ExternalCallFailure"

\* the kind of the condition that was fatal, from the response
KindOfOutcome(outcome) ==
  CASE outcome = "call_failed"  -> "ExternalCallFailure"
    [] outcome = "no_tool_call" -> "NoUsableResponse"
    [] outcome = "wrong_count"  -> "SchemaViolation"
    [] outcome = "bad_json"     -> "SchemaViolation"
    [] OTHER -> "none"

KeywordsResponse == IF kVariant = "direct" THEN kLastResp ELSE dLastResp

\* C20: when the tool call's payload lacks the "keywords" field,
\* generateKeywords returns an error and no keyword list, in the direct
\* variant and in the agent variant.
C20_MissingKeywordsIsError ==
  (kpc = "returned" /\ LacksKeywords(KeywordsResponse))
    => (kErr # NoError /\ kKeywords = <<>>)

\* C22: the iteration counter is 0 after the initial call, goes up by
\* exactly one on every refinement call that succeeds with N terms and on no
\* other step, each such step being the replacement of the candidate set by
\* the refined one, and stays within 0..K.
C22_IterationCounter ==
  /\ [](iteration \in 0..MAX_REFINEMENT_ITERATIONS)
  /\ [][/\ pc = "initial_call" => iteration' = 0
        /\ iteration' # iteration
             => /\ iteration' = iteration + 1
                /\ pc = "refine_call" /\ lastOutcome' = "ok"
                /\ lastCount' = TARGET_SEARCH_TERM_COUNT
        /\ (pc = "refine_call" /\ lastOutcome' = "ok")
             => (iteration' = iteration + 1 /\ currentTerms' = lastTerms')
        /\ (pc = "refine_call" /\ lastOutcome' # "ok")
             => (iteration' = iteration /\ currentTerms' = currentTerms)
        /\ (pc # "initial_call" /\ currentTerms' # currentTerms)
             => iteration' = iteration + 1]_vars

C22_Witness ==
  /\ pc = "loop" /\ iteration = 2 /\ refineCalls = 2
  /\ currentTerms = lastTerms /\ lastCall = "refine"

\* the three ways a run ends
Ended ==
  [ Done |-> /\ retErr = NoError /\ Len(retTerms) = TARGET_SEARCH_TERM_COUNT
             /\ lastOutcome = "ok",
    FailedSoft |-> /\ retErr = NoError
                   /\ Len(retTerms) = TARGET_SEARCH_TERM_COUNT
                   /\ lastCall = "refine" /\ lastOutcome # "ok",
    FailedHard |-> /\ retErr # NoError /\ retTerms = <<>>
                   /\ lastCall = "initial" /\ lastOutcome # "ok" ]

\* C28: when every call returns, every run of Generate ends, in exactly one
\* of DONE and FAILED-SOFT (a term set and no error) and FAILED-HARD (an
\* error and no term set), and takes no step after it has ended.
C28_Terminates ==
  /\ <>(pc = "returned")
  /\ [](pc = "returned"
          => /\ Ended.Done \/ Ended.FailedSoft \/ Ended.FailedHard
             /\ ~(Ended.Done /\ Ended.FailedSoft)
             /\ ~(Ended.Done /\ Ended.FailedHard)
             /\ ~(Ended.FailedSoft /\ Ended.FailedHard))
  /\ [][pc # "returned"]_agentVars

C28_Witness ==
  /\ pc = "returned" /\ Ended.FailedSoft /\ iteration = 3

\* C29: whenever Generate returns a term set, the number it reports as
\* total API calls (iteration + 1) is the number of calls issued in the run.
C29_ReportedCalls ==
  (pc = "returned" /\ retErr = NoError) => reportedCalls = Calls

\* C24: in the report of evaluateSearchTermQuality each pattern flag is true
\* exactly when at least one lower-cased term matches the category's
\* predicate, however many terms match and wherever they stand, and the
\* term count is the length of the list.
C24_FlagsIffSomeTermMatches ==
  LET lower == [i \in 1..Len(ein) |-> ToLower(ein[i])]
      some(Matches(_)) == \E i \in 1..Len(ein) : Matches(lower[i])
  IN  /\ eout.HasComparisons <=> some(IsComparison)
      /\ eout.HasQuestions   <=> some(IsQuestion)
      /\ eout.HasBestLists   <=> some(IsBestList)
      /\ eout.HasValueTerms  <=> some(IsValueTerm)
      /\ eout.HasFormatMix   <=> some(IsFormatMix)
      /\ eout.HasUserIntent  <=> some(IsUserIntent)
      /\ eout.TermCount = Len(ein)

\* two terms match the question category, the last term matches nothing
C24_Witness ==
  /\ ein = <<Exemplar[2], Exemplar[2], <<"a">> >>
  /\ eout.HasQuestions /\ ~eout.HasComparisons
  /\ eout.TermCount = 3

\* C25: when the response of iteration i is the first with a tool call
\* whose arguments parse, RunAgent returns at once with Success = true, the
\* parsed arguments as Result (whatever text was stored before) and
\* Iterations = i, and no call follows; a plain-text response stores the
\* text, leaves the completion flag unset and the loop goes on.
C25_ToolCallCompletes ==
  /\ [][(dpc = "act_call" /\ IsParseableToolCall(dLastResp'))
          => /\ ~dToolSeen /\ ~dCompleted /\ dCompleted'
             /\ dpc' = "returned"
             /\ dRet' = AgentResult(TRUE, MapValue(dLastResp'.payload),
                                    dIteration, NoError)
             /\ dIteration' = dIteration /\ dCalls' = dCalls]_vars
  /\ [][(dpc = "act_call" /\ IsPlainText(dLastResp'))
          => /\ ~dCompleted'
             /\ dResult' = TextValue(dLastResp'.text)
             /\ dpc' = "loop" /\ dRet' = dRet]_vars
  /\ [][dpc = "returned" => (dpc' = "returned" /\ dCalls' = dCalls)]_vars

\* the tool call of the third iteration replaced the text of the second
C25_Witness ==
  /\ dpc = "returned" /\ dRet.Success /\ dRet.Iterations = 3 /\ dCalls = 3
  /\ dLastResp.text = "thinking" /\ dResult.kind = "map"
  /\ dRet.Result = MapValue(Payload(JArray(<<JStr(Keyword2)>>), JAbsent))

\* C26: a failed call, a response without choices, a response with neither
\* a tool call nor text, and a tool call whose arguments do not parse each
\* make RunAgent return at once with Success = false, an error, no result
\* and Iterations = the current iteration; nothing is retried and no call
\* follows.
C26_UnusableResponseFails ==
  /\ [][(/\ dpc = "act_call"
         /\ \/ dLastResp'.err # ""
            \/ dLastResp'.choices = 0
            \/ dLastResp'.toolCalls > 0 /\ ~dLastResp'.parses
            \/ dLastResp'.toolCalls = 0 /\ dLastResp'.text = "")
          => /\ dpc' = "returned"
             /\ ~dRet'.Success
             /\ dRet'.Error # NoError
             /\ dRet'.Result = NilValue
             /\ dRet'.Iterations = dIteration
             /\ dIteration' = dIteration /\ dCalls' = dCalls]_vars
  /\ [][(dpc = "returned" /\ ~dRet.Success)
          => UNCHANGED <<dpc, dRet, dCalls, dIteration>>]_vars

\* the second response has neither a tool call nor text: the text of the
\* first stays in the state and is not handed back
C26_Witness ==
  /\ dpc = "returned" /\ ~dRet.Success /\ dCalls = 2 /\ dMaxIterations = 3
  /\ dRet.Error = <<"unexpected response format">>
  /\ dResult.kind = "text" /\ dRet.Result = NilValue /\ dRet.Iterations = 2

\* C27 as stated: at every point of a RunAgent run the number of calls
\* issued equals the iteration counter and does not exceed MaxIterations,
\* the Iterations field of the result is the number of calls issued, and
\* with MaxIterations <= 0 no call is issued and the run fails with the
\* max-iterations error.
C27_CallsWithinMaxIterations ==
  /\ dCalls = dIteration
  /\ dCalls <= dMaxIterations
  /\ dpc = "returned" => dRet.Iterations = dCalls
  /\ (dpc = "returned" /\ dMaxIterations <= 0)
       => (dCalls = 0 /\ ~dRet.Success /\ dRet.Error = BudgetError)

\* C27 amended: the number of calls issued equals the iteration counter and
\* does not exceed the larger of MaxIterations and 0; the Iterations field
\* of the result is the number of calls issued; with MaxIterations <= 0 no
\* call is issued and the run fails with the max-iterations error.
C27_CallsWithinBudget ==
  /\ dCalls = dIteration
  /\ dCalls <= DriverBudget
  /\ dpc = "returned" => dRet.Iterations = dCalls
  /\ (dpc = "returned" /\ dMaxIterations <= 0)
       => (dCalls = 0 /\ ~dRet.Success /\ dRet.Error = BudgetError)

\* a run with a negative budget has returned
C27_Witness ==
  /\ dpc = "returned" /\ dMaxIterations = -1 /\ dCalls = 0
  /\ dRet = AgentResult(FALSE, NilValue, 0, BudgetError)
\* the terms as a list numbered 1..n, one per line, and n itself
NumberedList(terms) ==
  LET numeral == <<"1", "2", "3", "4", "5", "6", "7", "8", "9", "10", "11",
                   "12", "13", "14", "15">>
      line(i) == numeral[i] \o ". " \o Str(terms[i])
      upTo[i \in 0..Len(terms)] ==
        IF i = 0 THEN ""
        ELSE IF i = 1 THEN line(1)
        ELSE upTo[i - 1] \o "\n" \o line(i)
  IN  [count |-> numeral[Len(terms)], lines |-> upTo[Len(terms)]]

\* C23: every refinement request holds exactly two messages, a system and a
\* user message, whatever the iteration; its text is fixed by the theme,
\* the current candidate set listed numbered 1..n and the missing-pattern
\* summary of the quality report of that same set, and holds nothing of an
\* earlier set, prompt or response: two runs at different iterations with
\* the same theme and current set send the same request.
C23_StatelessRefinement ==
  pc = "refine_call"
    => /\ Len(request) = 2
       /\ request[1] = [role |-> "system", text |-> RefineSystemPrompt]
       /\ request[2].role = "user"
       /\ request[2].text =
            RefineUserPrompt(NumberedList(currentTerms).count, Str(theme),
                             NumberedList(currentTerms).lines,
                             identifyMissingPatterns(
                               evaluateSearchTermQuality(currentTerms)),
                             "15")

\* the fourth refinement request, after three sets were replaced
C23_Witness ==
  /\ pc = "refine_call" /\ iteration = 3 /\ refineCalls = 4
  /\ lastCall = "refine" /\ currentTerms = lastTerms
  /\ Len(request) = 2

\* C21: whenever generateSearchTerms on RunAgent returns without error, it
\* returns exactly 15 search terms, whatever payload the tool call carried.
C21_DriverVariantReturnsN ==
  (spc = "returned" /\ sErr = NoError) => Len(sTerms) = TARGET_SEARCH_TERM_COUNT

\* C30: on an AgentResult with Success = true, ExtractSearchTerms and
\* ExtractKeywords answer with a list of strings or an error, whatever the
\* elements of the payload's array are; no run ends in a panic.
C30_ExtractNeverPanics ==
  /\ spc # "panicked"
  /\ (dpc = "returned" /\ dRet.Success)
       => (~ExtractSearchTerms(dRet).panics /\ ~ExtractKeywords(dRet).panics)

\* C31: whenever generateKeywords returns without error, the result is the
\* keyword list of the payload (empty when the payload has none), in order,
\* followed by the lower-cased theme as last element: one element more than
\* the payload holds, and never empty.
C31_ThemeAppended ==
  (kpc = "returned" /\ kErr = NoError)
    => LET v == KeywordsResponse.payload.keywords
           sent == IF v.kind = "array"
                     THEN [i \in 1..Len(v.items) |-> v.items[i].str]
                     ELSE <<>>
       IN  /\ IsParseableToolCall(KeywordsResponse)
           /\ v.kind = "array"
                => \A i \in 1..Len(v.items) : v.items[i].kind = "string"
           /\ Len(kKeywords) = Len(sent) + 1
           /\ kKeywords # <<>>
           /\ SubSeq(kKeywords, 1, Len(sent)) = sent
           /\ kKeywords[Len(kKeywords)] = ToLower(kTheme)

\* two keywords were sent for the theme "SciFi": they come back as sent,
\* the theme in lower case after them
C31_Witness ==
  /\ kpc = "returned" /\ kErr = NoError /\ kVariant = "agent"
  /\ kTheme = <<"S", "c", "i", "F", "i">>
  /\ kKeywords = <<Keyword1, Keyword2, <<"s", "c", "i", "f", "i">> >>

====
